---- MODULE Spec2Model ----
(***************************************************************************)
(* Newman: a stand-alone program that reads an e-mail file, splits it     *)
(* into headers and body, extracts the SMTP parameters from reserved      *)
(* headers, connects, waits for the client to be ready and sends the      *)
(* e-mail (src/src/main.cpp).                                             *)
(*                                                                         *)
(* Bytes are modelled as tokens: a header name or a value word is one     *)
(* token, ":" " " "CR" "LF" and decimal digits are tokens of their own.   *)
(* A string is a sequence of tokens.                                       *)
(***************************************************************************)
EXTENDS Integers, Sequences, FiniteSets, TLC

VARIABLES
    pc,              \* position of main()
    args,            \* argv[1..argc-1]
    environment,     \* Environment: emailFileName, caCertsFileName
    file,            \* lines of the e-mail file not yet read by std::getline
    fed,             \* history: lines std::getline has returned so far
    email,           \* Email: headers (sequence of name/value), body
    buffer,          \* ReadEmail: buffer
    headersComplete, \* ReadEmail: headersComplete
    parseCalls,      \* history: number of calls of ParseRawMessage
    consumedTotal,   \* history: sum of bytesConsumed over all calls
    lastParse,       \* history: last response of ParseRawMessage
    ops,             \* history: operations invoked on the client / auth
    credentials,     \* what auth->SetCredentials has received
    connectArgs,     \* what client.Connect has received
    sentMail,        \* what client.SendMail has received
    futureConnectSuccess, \* std::future<bool> of client.Connect
    readyOrBroken,   \* std::future<bool> of client.GetReadyOrBrokenFuture
    sendCompleted,   \* std::future<bool> of client.SendMail
    elapsed,         \* milliseconds spent in the current wait_for
    resolvedAt,      \* history: value of elapsed when the awaited future resolved
    diag,            \* diagnostics published by Newman, in order
    usagePrinted,    \* PrintUsageInformation has run
    returned,        \* <<>> while main runs, <<code>> once it has returned
    shutDown         \* the process-wide shutDown flag

vars == <<pc, args, environment, file, fed, email, buffer, headersComplete,
          parseCalls, consumedTotal, lastParse, ops, credentials, connectArgs,
          sentMail, futureConnectSuccess, readyOrBroken, sendCompleted,
          elapsed, resolvedAt, diag, usagePrinted, returned, shutDown>>

-----------------------------------------------------------------------------
(* Bounds of the model *)

\* longest e-mail file read and split, in lines
MaxLines == 4
\* longest e-mail file of a whole run, in lines
MaxRunLines == 2
\* most header lines of an enumerated e-mail that is followed to SendMail
MaxMailHeaders == 2
\* longest value of an X-SMTP-Port header, in characters
MaxPortLen == 5
\* most terminated lines of an e-mail file given byte by byte
MaxRawLines == 3
\* most command-line arguments after the program name
MaxArgs == 3
\* granularity of the clock, in milliseconds
TickMs == 2500

(* Program constants *)

\* std::chrono::milliseconds(5000) in AwaitFuture
WaitBound == 5000
EXIT_SUCCESS == 0
EXIT_FAILURE == 1

-----------------------------------------------------------------------------
(* Strings *)

CR == "CR"
LF == "LF"
CRLF == <<CR, LF>>
WSP == {" ", "TAB"}

\* Lower-case form of a token, as the case-insensitive comparison of header
\* names sees it.
ToLower(tok) ==
    CASE tok = "X-SMTP-Server-Hostname" -> "x-smtp-server-hostname"
      [] tok = "X-SMTP-Port" -> "x-smtp-port"
      [] tok = "X-SMTP-Username" -> "x-smtp-username"
      [] tok = "X-SMTP-Password" -> "x-smtp-password"
      [] tok = "Subject" -> "subject"
      [] OTHER -> tok

Lower(str) == [i \in 1..Len(str) |-> ToLower(str[i])]

\* Header names compare case-insensitively.
SameName(a, b) == Lower(a) = Lower(b)

\* The lines an e-mail file of the model is made of (without line terminator).
HostLine == <<"X-SMTP-Server-Hostname", ":", " ", "h">>
PortLine == <<"X-SMTP-Port", ":", "5", "8", "7">>
UserLine == <<"X-SMTP-Username", ":", " ", "u">>
UserLine2 == <<"x-smtp-username", ":", "v">>
PassLine == <<"X-SMTP-Password", ":", "p">>
SubjLine == <<"Subject", ":", "s">>
FoldLine == <<" ", "t">>
BlankLine == <<>>
TextLine == <<"hello">>

Lines == {HostLine, PortLine, UserLine, UserLine2, PassLine, SubjLine,
          FoldLine, BlankLine, TextLine}

\* further header lines of the e-mails of whole runs
ToLine == <<"To", ":", " ", "r">>
\* the server and the password under the names the usage text gives them
UsageHostLine == <<"X-SMTP-Hostname", ":", " ", "h">>
UsagePassLine == <<"X_SMTP-Password", ":", "p">>

RECURSIVE SeqsUpTo(_, _)
SeqsUpTo(S, n) ==
    IF n = 0 THEN {<<>>}
    ELSE LET shorter == SeqsUpTo(S, n - 1)
         IN shorter \cup {Append(s, x) : s \in {t \in shorter : Len(t) = n - 1}, x \in S}

Files == SeqsUpTo(Lines, MaxLines)
RunFiles == SeqsUpTo(Lines, MaxRunLines)

\* The e-mails of the runs that follow an e-mail to client.SendMail: some
\* header lines, the blank line, a body line; the e-mail of the README's
\* kind with all four parameters, one with parameters between other
\* headers, and one that names the parameters as the usage text does.
MailHeaderLines == {HostLine, UserLine, UserLine2, SubjLine, ToLine}
Scenario1File == <<HostLine, PortLine, UserLine, PassLine, SubjLine, BlankLine, TextLine>>
MixedFile == <<ToLine, UserLine, SubjLine, HostLine, ToLine, BlankLine, TextLine>>
UsageFile == <<UsageHostLine, PortLine, UserLine, UsagePassLine, SubjLine, BlankLine, TextLine>>
MailFiles ==
    {h \o <<BlankLine, TextLine>> : h \in SeqsUpTo(MailHeaderLines, MaxMailHeaders)}
       \cup {Scenario1File, MixedFile, UsageFile}

\* The e-mails that differ in the value of X-SMTP-Port only, and the e-mail
\* without that header.
PortChars == {"5", "8", "7", "a"}
PortHeaderLine(value) == <<"X-SMTP-Port", ":">> \o value
PortFiles ==
    {<<PortHeaderLine(v), BlankLine>> : v \in SeqsUpTo(PortChars, MaxPortLen)}
       \cup {<<SubjLine, BlankLine>>}

\* E-mail files byte by byte: lines of a header, nothing or text, each
\* terminated by LF or by CR LF, and possibly a last line without terminator.
RawContents == {SubjLine, BlankLine, TextLine}
Terminators == {<<LF>>, CRLF}
RawLines == {c \o t : c \in RawContents, t \in Terminators}

RECURSIVE Concat(_)
Concat(strs) == IF strs = <<>> THEN <<>> ELSE Head(strs) \o Concat(Tail(strs))

RawFiles ==
    {Concat(ls) \o last : ls \in SeqsUpTo(RawLines, MaxRawLines), last \in {<<>>, TextLine}}

\* What the std::ifstream, opened without std::ios::binary, hands on: the
\* bytes of the file, or with CR LF read as LF where the platform has a text
\* mode (Windows).
RECURSIVE TextMode(_)
TextMode(raw) ==
    IF raw = <<>> THEN <<>>
    ELSE IF Len(raw) >= 2 /\ raw[1] = CR /\ raw[2] = LF THEN <<LF>> \o TextMode(Tail(Tail(raw)))
    ELSE <<Head(raw)>> \o TextMode(Tail(raw))

StreamContents(raw) == {raw, TextMode(raw)}

\* The lines std::getline extracts one after another: the characters up to
\* the next LF, which is dropped, or up to the end of the file; no line when
\* nothing is left.
RECURSIVE GetLines(_)
GetLines(chars) ==
    IF chars = <<>> THEN <<>>
    ELSE IF \E i \in 1..Len(chars) : chars[i] = LF
    THEN LET i == CHOOSE j \in 1..Len(chars) :
                     chars[j] = LF /\ \A k \in 1..(j - 1) : chars[k] # LF
         IN <<SubSeq(chars, 1, i - 1)>> \o GetLines(SubSeq(chars, i + 1, Len(chars)))
    ELSE <<chars>>

LineFiles == UNION {{GetLines(chars) : chars \in StreamContents(raw)} : raw \in RawFiles}

\* argv[i]
Arg(i) == IF i = 1 THEN "mail.eml" ELSE IF i = 2 THEN "certs.pem" ELSE "extra"
ArgLists == {[i \in 1..n |-> Arg(i)] : n \in 0..MaxArgs}

\* line + "\r\n"
LineWithNewLine(line) == line \o CRLF

\* The byte stream ReadEmail has seen: every line read, each with its CRLF.
RECURSIVE Stream(_)
Stream(lines) ==
    IF lines = <<>> THEN <<>>
    ELSE LineWithNewLine(Head(lines)) \o Stream(Tail(lines))

\* std::string::substr(pos)
Substr(str, pos) == SubSeq(str, pos + 1, Len(str))

-----------------------------------------------------------------------------
(* MessageHeaders::MessageHeaders, the header parser and collection *)

\* offset (from 0) of the first CRLF at or after offset from, -1 if none
FindCRLF(str, from) ==
    LET hits == {i \in from..(Len(str) - 2) : str[i + 1] = CR /\ str[i + 2] = LF}
    IN IF hits = {} THEN -1 ELSE CHOOSE i \in hits : \A j \in hits : i <= j

\* offset (from 0) of the first tok in [from, to), -1 if none
FindIn(str, tok, from, to) ==
    LET hits == {i \in from..(to - 1) : str[i + 1] = tok}
    IN IF hits = {} THEN -1 ELSE CHOOSE i \in hits : \A j \in hits : i <= j

RECURSIVE StripLeft(_)
StripLeft(str) ==
    IF str # <<>> /\ Head(str) \in WSP THEN StripLeft(Tail(str)) ELSE str

RECURSIVE StripRight(_)
StripRight(str) ==
    IF str # <<>> /\ str[Len(str)] \in WSP
    THEN StripRight(SubSeq(str, 1, Len(str) - 1))
    ELSE str

StripMarginWhitespace(str) == StripRight(StripLeft(str))

\* Line unfolding: lt is the offset of the CRLF ending the header line read so
\* far. The next line has to be there in full to tell whether it continues
\* the header; found = FALSE when it is not.
RECURSIVE Unfold(_, _, _)
Unfold(str, value, lt) ==
    LET nextLineStart == lt + 2
        nlt == FindCRLF(str, nextLineStart)
    IN IF nlt = -1
       THEN [found |-> FALSE, value |-> value, next |-> nextLineStart]
       ELSE IF nlt > nextLineStart /\ str[nextLineStart + 1] \in WSP
       THEN Unfold(str, value \o SubSeq(str, nextLineStart + 1, nlt), nlt)
       ELSE [found |-> TRUE, value |-> value, next |-> nextLineStart]

ValidName(name) == name # <<>> /\ \A i \in 1..Len(name) : name[i] \notin WSP \cup {CR, LF}

\* ParseRawMessage(rawMessage, bodyOffset): headers parsed are added to the
\* collection; consumed is bodyOffset.
RECURSIVE ParseFrom(_, _, _)
ParseFrom(headers, str, offset) ==
    LET lt == FindCRLF(str, offset)
    IN IF offset >= Len(str) \/ lt = -1
       THEN [headers |-> headers, consumed |-> offset, state |-> "Incomplete"]
       ELSE IF lt = offset
       THEN [headers |-> headers, consumed |-> offset + 2, state |-> "Complete"]
       ELSE LET delim == FindIn(str, ":", offset, lt)
                name == SubSeq(str, offset + 1, delim)
                u == Unfold(str, SubSeq(str, delim + 2, lt), lt)
            IN IF delim = -1 \/ ~ValidName(name)
               THEN [headers |-> headers, consumed |-> offset, state |-> "Error"]
               ELSE IF ~u.found
               THEN [headers |-> headers, consumed |-> offset, state |-> "Incomplete"]
               ELSE ParseFrom(
                        Append(headers, [name |-> name,
                                         value |-> StripMarginWhitespace(u.value)]),
                        str, u.next)

ParseRawMessage(headers, rawMessage) == ParseFrom(headers, rawMessage, 0)

\* GetHeaderValue: the value of the first header of that name, "" if none
GetHeaderValue(headers, name) ==
    LET hits == {i \in 1..Len(headers) : SameName(headers[i].name, name)}
    IN IF hits = {} THEN <<>>
       ELSE headers[CHOOSE i \in hits : \A j \in hits : i <= j].value

\* RemoveHeader: every header of that name is removed
RemoveHeader(headers, name) ==
    SelectSeq(headers, LAMBDA h : ~SameName(h.name, name))

-----------------------------------------------------------------------------
(* Diagnostics *)

Info(msg) == [level |-> "3", msg |-> msg]
Warning(msg) == [level |-> "WARNING", msg |-> msg]
Error(msg) == [level |-> "ERROR", msg |-> msg]

MsgConnecting == "Connecting to SMTP server."
MsgConnected == "Connected to SMTP server."
MsgPreparing == "Preparing to send e-mail..."
MsgSending == "Sending e-mail."
MsgWaiting == "Waiting for e-mail to be sent..."
MsgSent == "E-mail successfully sent."
MsgExiting == "Exiting..."
MsgConnectProblem == "There was a problem connecting to the SMTP server!"
MsgSetupProblem == "There was a problem setting up to send the e-mail!"
MsgSetupTimeout == "Timeout waiting to set up to send the e-mail!"
MsgSendProblem == "There was a problem sending the e-mail!"
MsgSendTimeout == "Timeout waiting for server to accept the e-mail!"

-----------------------------------------------------------------------------
(* ProcessCommandLineArguments *)

\* mutant: arguments after CERTS are ignored, and no MAIL is no error
ProcessCommandLineArguments_AcceptsAnything(argv, env) ==
    [ok |-> TRUE,
     environment |-> [emailFileName |-> IF Len(argv) >= 1 THEN argv[1] ELSE "",
                      caCertsFileName |-> IF Len(argv) >= 2 THEN argv[2] ELSE ""],
     diag |-> <<>>]

RECURSIVE ProcessArgsFrom(_, _, _, _, _)
ProcessArgsFrom(argv, i, state, env, emailFileNameSet) ==
    IF i > Len(argv)
    THEN IF ~emailFileNameSet
         THEN [ok |-> FALSE, environment |-> env, diag |-> <<Error("no MAIL given")>>]
         ELSE [ok |-> TRUE, environment |-> env, diag |-> <<>>]
    ELSE CASE state = 0 ->
                ProcessArgsFrom(argv, i + 1, 1,
                                [env EXCEPT !.emailFileName = argv[i]], TRUE)
           [] state = 1 ->
                ProcessArgsFrom(argv, i + 1, 2,
                                [env EXCEPT !.caCertsFileName = argv[i]],
                                emailFileNameSet)
           [] OTHER ->
                [ok |-> FALSE, environment |-> env,
                 diag |-> <<Error("extra arguments given")>>]

ProcessCommandLineArguments(argv, env) == ProcessArgsFrom(argv, 1, 0, env, FALSE)

-----------------------------------------------------------------------------
(* ReadEmail: the body of the std::getline loop *)

\* mutant: the headersComplete flag is not looked at, every line is parsed
ReadEmailLine_ParsesOn(em, buf, complete, line) ==
    LET lineWithNewLine == LineWithNewLine(line)
        buffer1 == buf \o lineWithNewLine
        r == ParseRawMessage(em.headers, buffer1)
        buffer2 == IF r.consumed = Len(buffer1) THEN <<>>
                   ELSE Substr(buffer1, r.consumed)
    IN [email |-> [headers |-> r.headers,
                   body |-> IF r.state = "Complete" THEN buffer2 ELSE em.body],
        buffer |-> buffer2,
        headersComplete |-> (r.state = "Complete"),
        parsed |-> TRUE, consumed |-> r.consumed, state |-> r.state]

\* mutant: the buffer is cleared after every call of the parser
ReadEmailLine_DropsBuffer(em, buf, complete, line) ==
    LET lineWithNewLine == LineWithNewLine(line)
        buffer1 == buf \o lineWithNewLine
        r == ParseRawMessage(em.headers, buffer1)
    IN IF complete
       THEN [email |-> [em EXCEPT !.body = em.body \o lineWithNewLine],
             buffer |-> buf, headersComplete |-> complete,
             parsed |-> FALSE, consumed |-> 0, state |-> "None"]
       ELSE [email |-> [headers |-> r.headers,
                        body |-> IF r.state = "Complete" THEN <<>> ELSE em.body],
             buffer |-> <<>>,
             headersComplete |-> (r.state = "Complete"),
             parsed |-> TRUE, consumed |-> r.consumed, state |-> r.state]

\* mutant: what the parser left is taken for the body after every call
ReadEmailLine_BodyBeforeComplete(em, buf, complete, line) ==
    LET lineWithNewLine == LineWithNewLine(line)
        buffer1 == buf \o lineWithNewLine
        r == ParseRawMessage(em.headers, buffer1)
        buffer2 == IF r.consumed = Len(buffer1) THEN <<>>
                   ELSE Substr(buffer1, r.consumed)
    IN IF complete
       THEN [email |-> [em EXCEPT !.body = em.body \o lineWithNewLine],
             buffer |-> buf, headersComplete |-> complete,
             parsed |-> FALSE, consumed |-> 0, state |-> "None"]
       ELSE [email |-> [headers |-> r.headers, body |-> buffer2],
             buffer |-> buffer2,
             headersComplete |-> (r.state = "Complete"),
             parsed |-> TRUE, consumed |-> r.consumed, state |-> r.state]

\* mutant: the bytes the parser consumed stay in the buffer
ReadEmailLine_KeepsConsumed(em, buf, complete, line) ==
    LET lineWithNewLine == LineWithNewLine(line)
        buffer1 == buf \o lineWithNewLine
        r == ParseRawMessage(em.headers, buffer1)
        buffer2 == buffer1
    IN IF complete
       THEN [email |-> [em EXCEPT !.body = em.body \o lineWithNewLine],
             buffer |-> buf, headersComplete |-> complete,
             parsed |-> FALSE, consumed |-> 0, state |-> "None"]
       ELSE [email |-> [headers |-> r.headers,
                        body |-> IF r.state = "Complete" THEN buffer2 ELSE em.body],
             buffer |-> buffer2,
             headersComplete |-> (r.state = "Complete"),
             parsed |-> TRUE, consumed |-> r.consumed, state |-> r.state]

ReadEmailLine(em, buf, complete, line) ==
    LET lineWithNewLine == LineWithNewLine(line)
        buffer1 == buf \o lineWithNewLine
        r == ParseRawMessage(em.headers, buffer1)
        buffer2 == IF r.consumed = Len(buffer1) THEN <<>>
                   ELSE Substr(buffer1, r.consumed)
    IN IF complete
       THEN [email |-> [em EXCEPT !.body = em.body \o lineWithNewLine],
             buffer |-> buf, headersComplete |-> complete,
             parsed |-> FALSE, consumed |-> 0, state |-> "None"]
       ELSE [email |-> [headers |-> r.headers,
                        body |-> IF r.state = "Complete" THEN buffer2 ELSE em.body],
             buffer |-> buffer2,
             headersComplete |-> (r.state = "Complete"),
             parsed |-> TRUE, consumed |-> r.consumed, state |-> r.state]

-----------------------------------------------------------------------------
(* ConnectToServer: the parameters taken from the e-mail's headers *)

HostKey == <<"X-SMTP-Server-Hostname">>
PortKey == <<"X-SMTP-Port">>
UserKey == <<"X-SMTP-Username">>
PassKey == <<"X-SMTP-Password">>
ReservedKeys == {HostKey, PortKey, UserKey, PassKey}

\* mutant: the Subject header is removed with the parameters
ExtractParameters_RemovesSubject(headers) ==
    LET serverHostName == GetHeaderValue(headers, HostKey)
        h1 == RemoveHeader(headers, HostKey)
        serverPortNumberAsString == GetHeaderValue(h1, PortKey)
        h2 == RemoveHeader(h1, PortKey)
        username == GetHeaderValue(h2, UserKey)
        h3 == RemoveHeader(h2, UserKey)
        password == GetHeaderValue(h3, PassKey)
        h4 == RemoveHeader(RemoveHeader(h3, PassKey), <<"Subject">>)
    IN [headers |-> h4,
        serverHostName |-> serverHostName,
        serverPortNumberAsString |-> serverPortNumberAsString,
        username |-> username,
        password |-> password]

\* mutant: X-SMTP-Password is read and left in the headers
ExtractParameters_KeepsPassword(headers) ==
    LET serverHostName == GetHeaderValue(headers, HostKey)
        h1 == RemoveHeader(headers, HostKey)
        serverPortNumberAsString == GetHeaderValue(h1, PortKey)
        h2 == RemoveHeader(h1, PortKey)
        username == GetHeaderValue(h2, UserKey)
        h3 == RemoveHeader(h2, UserKey)
        password == GetHeaderValue(h3, PassKey)
    IN [headers |-> h3,
        serverHostName |-> serverHostName,
        serverPortNumberAsString |-> serverPortNumberAsString,
        username |-> username,
        password |-> password]

\* mutant: X-SMTP-Username is read and left in the headers
ExtractParameters_KeepsUsername(headers) ==
    LET serverHostName == GetHeaderValue(headers, HostKey)
        h1 == RemoveHeader(headers, HostKey)
        serverPortNumberAsString == GetHeaderValue(h1, PortKey)
        h2 == RemoveHeader(h1, PortKey)
        username == GetHeaderValue(h2, UserKey)
        password == GetHeaderValue(h2, PassKey)
        h4 == RemoveHeader(h2, PassKey)
    IN [headers |-> h4,
        serverHostName |-> serverHostName,
        serverPortNumberAsString |-> serverPortNumberAsString,
        username |-> username,
        password |-> password]

ExtractParameters(headers) ==
    LET serverHostName == GetHeaderValue(headers, HostKey)
        h1 == RemoveHeader(headers, HostKey)
        serverPortNumberAsString == GetHeaderValue(h1, PortKey)
        h2 == RemoveHeader(h1, PortKey)
        username == GetHeaderValue(h2, UserKey)
        h3 == RemoveHeader(h2, UserKey)
        password == GetHeaderValue(h3, PassKey)
        h4 == RemoveHeader(h3, PassKey)
    IN [headers |-> h4,
        serverHostName |-> serverHostName,
        serverPortNumberAsString |-> serverPortNumberAsString,
        username |-> username,
        password |-> password]

NoCredentials == [set |-> FALSE, credentials |-> <<>>, identity |-> <<>>]

\* mutant: the credentials are not handed over
ProvideCredentials_Skipped(username, password) == NoCredentials

\* the LoginFunction SetupClient returns: auth->SetCredentials(password, username)
ProvideCredentials(username, password) ==
    [set |-> TRUE, credentials |-> password, identity |-> username]

Digits == {"0", "1", "2", "3", "4", "5", "6", "7", "8", "9"}

DigitValue(d) ==
    CASE d = "0" -> 0 [] d = "1" -> 1 [] d = "2" -> 2 [] d = "3" -> 3
      [] d = "4" -> 4 [] d = "5" -> 5 [] d = "6" -> 6 [] d = "7" -> 7
      [] d = "8" -> 8 [] d = "9" -> 9

RECURSIVE ScanDigits(_, _)
ScanDigits(str, acc) ==
    IF str # <<>> /\ Head(str) \in Digits
    THEN ScanDigits(Tail(str), acc * 10 + DigitValue(Head(str)))
    ELSE acc

\* sscanf(s, "%" SCNu16, &serverPortNumber) with serverPortNumber = 0 before:
\* leading white space is skipped, the digits that follow are converted and
\* stored in 16 bits; without a digit nothing is stored.
ScanU16(str) ==
    LET s == StripLeft(str)
    IN IF s # <<>> /\ Head(s) \in Digits THEN ScanDigits(s, 0) % 65536 ELSE 0

\* What sscanf can leave in serverPortNumber. A number that does not fit the
\* uint16_t is undefined behaviour: the C libraries in use store it
\* truncated to 16 bits, or clamped.
ScanU16Outcomes(str) ==
    LET s == StripLeft(str)
        n == ScanDigits(s, 0)
    IN IF s = <<>> \/ Head(s) \notin Digits THEN {0}
       ELSE IF n <= 65535 THEN {ScanU16(str)}
       ELSE {n % 65536, 65535}

-----------------------------------------------------------------------------
(* AwaitFuture and WaitForClientReadyToSend *)

Resolved(future) == future \in {"true", "false"}

\* mutant: a wait without deadline
WaitFor_NoDeadline(future, el) ==
    IF Resolved(future) THEN "ready" ELSE "blocked"

\* future.wait_for(5000 ms) after el milliseconds of waiting
WaitFor(future, el) ==
    IF Resolved(future) THEN "ready"
    ELSE IF el >= WaitBound THEN "timeout"
    ELSE "blocked"

\* mutant: a wait that timed out is reported as a failure
AwaitFuture_TimeoutIsFailure(future, el) ==
    IF WaitFor(future, el) # "ready" THEN "Failure"
    ELSE IF future = "true" THEN "Success"
    ELSE "Failure"

\* mutant: the value of the future is not looked at
AwaitFuture_IgnoresValue(future, el) ==
    IF WaitFor(future, el) # "ready" THEN "Incomplete"
    ELSE "Success"

AwaitFuture(future, el) ==
    IF WaitFor(future, el) # "ready" THEN "Incomplete"
    ELSE IF future = "true" THEN "Success"
    ELSE "Failure"

\* mutant: a timeout is taken for readiness
WaitForClientReadyToSend_IgnoresTimeout(future, el) ==
    LET result == AwaitFuture(future, el)
    IN CASE result = "Failure" ->
              [ok |-> FALSE, diag |-> <<Warning(MsgSetupProblem)>>]
         [] OTHER -> [ok |-> TRUE, diag |-> <<>>]

WaitForClientReadyToSend(future, el) ==
    LET result == AwaitFuture(future, el)
    IN CASE result = "Failure" ->
              [ok |-> FALSE, diag |-> <<Warning(MsgSetupProblem)>>]
         [] result = "Incomplete" ->
              [ok |-> FALSE, diag |-> <<Warning(MsgSetupTimeout)>>]
         [] OTHER -> [ok |-> TRUE, diag |-> <<>>]

\* mutant: a rejected e-mail ends the run with EXIT_SUCCESS
SendOutcome_FailureReturnsSuccess(future, el) ==
    LET result == AwaitFuture(future, el)
    IN CASE result = "Failure" ->
              [code |-> EXIT_SUCCESS, diag |-> <<Warning(MsgSendProblem)>>]
         [] result = "Incomplete" ->
              [code |-> EXIT_FAILURE, diag |-> <<Warning(MsgSendTimeout)>>]
         [] OTHER ->
              [code |-> EXIT_SUCCESS, diag |-> <<Info(MsgSent), Info(MsgExiting)>>]

\* the switch on AwaitFuture(sendCompleted) in main
SendOutcome(future, el) ==
    LET result == AwaitFuture(future, el)
    IN CASE result = "Failure" ->
              [code |-> EXIT_FAILURE, diag |-> <<Warning(MsgSendProblem)>>]
         [] result = "Incomplete" ->
              [code |-> EXIT_FAILURE, diag |-> <<Warning(MsgSendTimeout)>>]
         [] OTHER ->
              [code |-> EXIT_SUCCESS, diag |-> <<Info(MsgSent), Info(MsgExiting)>>]

-----------------------------------------------------------------------------
(* The program *)

Unresolved == [phase |-> "unresolved", at |-> 0]

InitWith(argLists, files) ==
    /\ pc = "start"
    /\ args \in argLists
    /\ environment = [emailFileName |-> "", caCertsFileName |-> ""]
    /\ file \in files
    /\ fed = <<>>
    /\ email = [headers |-> <<>>, body |-> <<>>]
    /\ buffer = <<>>
    /\ headersComplete = FALSE
    /\ parseCalls = 0
    /\ consumedTotal = 0
    /\ lastParse = "None"
    /\ ops = <<>>
    /\ credentials = NoCredentials
    /\ connectArgs = [set |-> FALSE, host |-> <<>>, port |-> 0]
    /\ sentMail = [set |-> FALSE, headers |-> <<>>, body |-> <<>>]
    /\ futureConnectSuccess = "none"
    /\ readyOrBroken = "none"
    /\ sendCompleted = "none"
    /\ elapsed = 0
    /\ resolvedAt = [ready |-> Unresolved, send |-> Unresolved]
    /\ diag = <<>>
    /\ usagePrinted = FALSE
    /\ returned = <<>>
    /\ shutDown = FALSE

\* a whole run
Init == InitWith(ArgLists, RunFiles)

\* the run up to the call of client.Connect, on longer files, started as
\* "Newman MAIL"
InitRead == InitWith({a \in ArgLists : Len(a) = 1}, Files)

readVars == <<file, fed, email, buffer, headersComplete, parseCalls,
              consumedTotal, lastParse>>
clientVars == <<ops, credentials, connectArgs, sentMail>>
futureVars == <<futureConnectSuccess, readyOrBroken, sendCompleted>>

\* main: ProcessCommandLineArguments, and the usage text when it fails
ProcessArguments ==
    /\ pc = "start"
    /\ LET r == ProcessCommandLineArguments(args, environment)
       IN /\ environment' = r.environment
          /\ diag' = diag \o r.diag
          /\ IF r.ok
             THEN /\ pc' = "setup"
                  /\ UNCHANGED <<usagePrinted, returned>>
             ELSE /\ pc' = "done"
                  /\ usagePrinted' = TRUE
                  /\ returned' = <<EXIT_FAILURE>>
    /\ UNCHANGED <<args, readVars, clientVars, futureVars, elapsed, resolvedAt,
                   shutDown>>

\* main: SetupClient
SetupClient ==
    /\ pc = "setup"
    /\ ops' = ops \o <<"Configure", "RegisterExtension">>
    /\ pc' = "read"
    /\ UNCHANGED <<args, environment, readVars, credentials, connectArgs, sentMail,
                   futureVars, elapsed, resolvedAt, diag, usagePrinted, returned,
                   shutDown>>

\* ReadEmail: one turn of the std::getline loop
ReadLine ==
    /\ pc = "read"
    /\ file # <<>>
    /\ LET r == ReadEmailLine(email, buffer, headersComplete, Head(file))
       IN /\ email' = r.email
          /\ buffer' = r.buffer
          /\ headersComplete' = r.headersComplete
          /\ parseCalls' = IF r.parsed THEN parseCalls + 1 ELSE parseCalls
          /\ consumedTotal' = consumedTotal + r.consumed
          /\ lastParse' = IF r.parsed THEN r.state ELSE lastParse
    /\ file' = Tail(file)
    /\ fed' = Append(fed, Head(file))
    /\ UNCHANGED <<pc, args, environment, clientVars, futureVars, elapsed,
                   resolvedAt, diag, usagePrinted, returned, shutDown>>

\* mutant: main does not ask for the future before it connects
ReadEmailReturn_NoFuture ==
    /\ pc = "read"
    /\ file = <<>>
    /\ pc' = "extract"
    /\ UNCHANGED <<args, environment, readVars, clientVars, futureVars, elapsed,
                   resolvedAt, diag, usagePrinted, returned, shutDown>>

\* ReadEmail returns at the end of the file; main: GetReadyOrBrokenFuture
ReadEmailReturn ==
    /\ pc = "read"
    /\ file = <<>>
    /\ ops' = Append(ops, "GetReadyOrBrokenFuture")
    /\ readyOrBroken' = "pending"
    /\ pc' = "extract"
    /\ UNCHANGED <<args, environment, readVars, credentials, connectArgs, sentMail,
                   futureConnectSuccess, sendCompleted, elapsed, resolvedAt, diag,
                   usagePrinted, returned, shutDown>>

\* ConnectToServer, up to provideCredentials(username, password)
ConnectToServerExtract ==
    /\ pc = "extract"
    /\ LET x == ExtractParameters(email.headers)
       IN /\ email' = [email EXCEPT !.headers = x.headers]
          /\ credentials' = ProvideCredentials(x.username, x.password)
          /\ \E serverPortNumber \in ScanU16Outcomes(x.serverPortNumberAsString) :
                connectArgs' = [set |-> FALSE, host |-> x.serverHostName,
                                port |-> serverPortNumber]
          /\ ops' = IF credentials'.set THEN Append(ops, "SetCredentials") ELSE ops
    /\ diag' = Append(diag, Info(MsgConnecting))
    /\ pc' = "connect"
    /\ UNCHANGED <<args, environment, file, fed, buffer, headersComplete,
                   parseCalls, consumedTotal, lastParse, sentMail, futureVars,
                   elapsed, resolvedAt, usagePrinted, returned, shutDown>>

\* ConnectToServer: client.Connect(serverHostName, serverPortNumber)
ConnectToServerConnect ==
    /\ pc = "connect"
    /\ connectArgs' = [connectArgs EXCEPT !.set = TRUE]
    /\ ops' = Append(ops, "Connect")
    /\ futureConnectSuccess' = "pending"
    /\ pc' = "awaitConnect"
    /\ UNCHANGED <<args, environment, readVars, credentials, sentMail,
                   readyOrBroken, sendCompleted, elapsed, resolvedAt, diag,
                   usagePrinted, returned, shutDown>>

\* mutant: "Connected to SMTP server." is not published
ConnectOutcome_NoConnected(connectSuccess) ==
    IF connectSuccess
    THEN [ok |-> TRUE, diag |-> <<Info(MsgPreparing)>>]
    ELSE [ok |-> FALSE, diag |-> <<Warning(MsgConnectProblem)>>]

\* mutant: main goes on after a failed connect
ConnectOutcome_NoReturn(connectSuccess) ==
    IF connectSuccess
    THEN [ok |-> TRUE, diag |-> <<Info(MsgConnected), Info(MsgPreparing)>>]
    ELSE [ok |-> TRUE, diag |-> <<Warning(MsgConnectProblem), Info(MsgPreparing)>>]

\* what main does with the result of ConnectToServer
ConnectOutcome(connectSuccess) ==
    IF connectSuccess
    THEN [ok |-> TRUE, diag |-> <<Info(MsgConnected), Info(MsgPreparing)>>]
    ELSE [ok |-> FALSE, diag |-> <<Warning(MsgConnectProblem)>>]

\* ConnectToServer: futureConnectSuccess.get(), and main up to the wait for
\* readyOrBroken
AwaitConnect ==
    /\ pc = "awaitConnect"
    /\ Resolved(futureConnectSuccess)
    /\ LET r == ConnectOutcome(futureConnectSuccess = "true")
       IN /\ diag' = diag \o r.diag
          /\ IF r.ok
             THEN /\ pc' = "awaitReady"
                  /\ returned' = returned
             ELSE /\ pc' = "done"
                  /\ returned' = <<EXIT_FAILURE>>
    /\ elapsed' = 0
    /\ UNCHANGED <<args, environment, readVars, clientVars, futureVars,
                   resolvedAt, usagePrinted, shutDown>>

\* main: WaitForClientReadyToSend returns; client.SendMail when it is ready
AwaitReady ==
    /\ pc = "awaitReady"
    /\ WaitFor(readyOrBroken, elapsed) # "blocked"
    /\ LET r == WaitForClientReadyToSend(readyOrBroken, elapsed)
       IN IF r.ok
          THEN /\ diag' = diag \o <<Info(MsgSending), Info(MsgWaiting)>>
               /\ ops' = Append(ops, "SendMail")
               /\ sentMail' = [set |-> TRUE, headers |-> email.headers,
                               body |-> email.body]
               /\ sendCompleted' = "pending"
               /\ pc' = "awaitSend"
               /\ elapsed' = 0
               /\ returned' = returned
          ELSE /\ diag' = diag \o r.diag
               /\ pc' = "done"
               /\ returned' = <<EXIT_FAILURE>>
               /\ UNCHANGED <<ops, sentMail, sendCompleted, elapsed>>
    /\ UNCHANGED <<args, environment, readVars, credentials, connectArgs,
                   futureConnectSuccess, readyOrBroken, resolvedAt, usagePrinted,
                   shutDown>>

\* main: AwaitFuture(sendCompleted) returns
AwaitSend ==
    /\ pc = "awaitSend"
    /\ WaitFor(sendCompleted, elapsed) # "blocked"
    /\ LET r == SendOutcome(sendCompleted, elapsed)
       IN /\ diag' = diag \o r.diag
          /\ returned' = <<r.code>>
    /\ pc' = "done"
    /\ UNCHANGED <<args, environment, readVars, clientVars, futureVars, elapsed,
                   resolvedAt, usagePrinted, shutDown>>

(* The transport and the clock *)

\* when a future resolves, relative to the wait_for on it
Phase(waitPc) ==
    IF pc = waitPc THEN [phase |-> "during", at |-> elapsed]
    ELSE IF pc = "done" THEN [phase |-> "after", at |-> 0]
    ELSE [phase |-> "before", at |-> 0]

ResolveConnect ==
    /\ futureConnectSuccess = "pending"
    /\ futureConnectSuccess' \in {"true", "false"}
    /\ UNCHANGED <<pc, args, environment, readVars, clientVars, readyOrBroken,
                   sendCompleted, elapsed, resolvedAt, diag, usagePrinted,
                   returned, shutDown>>

ResolveReadyOrBroken ==
    /\ readyOrBroken = "pending"
    /\ futureConnectSuccess # "none"
    /\ readyOrBroken' \in {"true", "false"}
    /\ resolvedAt' = [resolvedAt EXCEPT !.ready = Phase("awaitReady")]
    /\ UNCHANGED <<pc, args, environment, readVars, clientVars,
                   futureConnectSuccess, sendCompleted, elapsed, diag,
                   usagePrinted, returned, shutDown>>

ResolveSend ==
    /\ sendCompleted = "pending"
    /\ sendCompleted' \in {"true", "false"}
    /\ resolvedAt' = [resolvedAt EXCEPT !.send = Phase("awaitSend")]
    /\ UNCHANGED <<pc, args, environment, readVars, clientVars,
                   futureConnectSuccess, readyOrBroken, elapsed, diag,
                   usagePrinted, returned, shutDown>>

\* time passes in a wait_for, up to its deadline
Tick ==
    /\ pc \in {"awaitReady", "awaitSend"}
    /\ elapsed < WaitBound
    /\ elapsed' = IF elapsed + TickMs > WaitBound THEN WaitBound ELSE elapsed + TickMs
    /\ UNCHANGED <<pc, args, environment, readVars, clientVars, futureVars,
                   resolvedAt, diag, usagePrinted, returned, shutDown>>

\* mutant: the interrupt ends the run
InterruptHandler_AlsoAborts ==
    /\ returned = <<>>
    /\ ~shutDown
    /\ shutDown' = TRUE
    /\ pc' = "done"
    /\ returned' = <<EXIT_FAILURE>>
    /\ UNCHANGED <<args, environment, readVars, clientVars, futureVars,
                   elapsed, resolvedAt, diag, usagePrinted>>

\* SIGINT, while InterruptHandler is installed (main.cpp:426 to 487)
InterruptHandler ==
    /\ returned = <<>>
    /\ ~shutDown
    /\ shutDown' = TRUE
    /\ UNCHANGED <<pc, args, environment, readVars, clientVars, futureVars,
                   elapsed, resolvedAt, diag, usagePrinted, returned>>

Next ==
    \/ ProcessArguments
    \/ SetupClient
    \/ ReadLine
    \/ ReadEmailReturn
    \/ ConnectToServerExtract
    \/ ConnectToServerConnect
    \/ AwaitConnect
    \/ AwaitReady
    \/ AwaitSend
    \/ ResolveConnect
    \/ ResolveReadyOrBroken
    \/ ResolveSend
    \/ Tick
    \/ InterruptHandler

Spec == Init /\ [][Next]_vars

NextRead ==
    \/ ProcessArguments
    \/ SetupClient
    \/ ReadLine
    \/ ReadEmailReturn
    \/ ConnectToServerExtract

SpecRead == InitRead /\ [][NextRead]_vars

\* the run up to the call of client.Connect on the e-mails of PortFiles
InitPort == InitWith({a \in ArgLists : Len(a) = 1}, PortFiles)

SpecPort == InitPort /\ [][NextRead]_vars

\* The steps of the main thread, which runs whenever it is not blocked.
MainThread ==
    \/ ProcessArguments
    \/ SetupClient
    \/ ReadLine
    \/ ReadEmailReturn
    \/ ConnectToServerExtract
    \/ ConnectToServerConnect
    \/ AwaitConnect
    \/ AwaitReady
    \/ AwaitSend

\* Whole runs of "Newman MAIL" in which the main thread keeps running, time
\* passes and the connect future is resolved; readyOrBroken and sendCompleted
\* may never be.
LiveFiles == {<<>>, <<SubjLine, BlankLine>>, <<HostLine, BlankLine, TextLine>>}

InitLive == InitWith({a \in ArgLists : Len(a) = 1}, LiveFiles)

SpecLive ==
    /\ InitLive
    /\ [][Next]_vars
    /\ WF_vars(MainThread)
    /\ WF_vars(Tick)
    /\ WF_vars(ResolveConnect)

\* ReadEmail on the e-mail files given byte by byte
InitLines == InitWith({a \in ArgLists : Len(a) = 1}, LineFiles)

SpecLines == InitLines /\ [][NextRead]_vars

\* whole runs of "Newman MAIL" on the e-mails of MailFiles
InitMail == InitWith({a \in ArgLists : Len(a) = 1}, MailFiles)

SpecMail == InitMail /\ [][Next]_vars

-----------------------------------------------------------------------------
(* What a run has done, read off the diagnostics, the calls and the futures *)

Published(d) == \E i \in 1..Len(diag) : diag[i] = d
Times(d) == Cardinality({i \in 1..Len(diag) : diag[i] = d})
Warnings == SelectSeq(diag, LAMBDA d : d.level = "WARNING")
Calls(op) == Cardinality({i \in 1..Len(ops) : ops[i] = op})
Position(op) == CHOOSE i \in 1..Len(ops) : ops[i] = op

\* the future resolved no later than the deadline of the wait_for on it
InTime(at) == at.phase \in {"before", "during"} /\ at.at <= WaitBound
ReadyInTime == Resolved(readyOrBroken) /\ InTime(resolvedAt.ready)
SendInTime == Resolved(sendCompleted) /\ InTime(resolvedAt.send)

\* main is past the wait for readyOrBroken, resp. for sendCompleted
ReadyWaitOver == Published(Info(MsgPreparing)) /\ pc # "awaitReady"
SendWaitOver == Calls("SendMail") > 0 /\ pc # "awaitSend"

ProgressMessages ==
    {MsgConnecting, MsgConnected, MsgPreparing, MsgSending, MsgWaiting, MsgSent}

FailureMessages ==
    {MsgConnectProblem, MsgSetupProblem, MsgSetupTimeout, MsgSendProblem,
     MsgSendTimeout}

-----------------------------------------------------------------------------
(* C1: client.SendMail is invoked at most once, and only after the connect
   future resolved true and readyOrBroken resolved true within the 5000 ms
   bound; when connect resolves false, or readyOrBroken is not resolved
   within the bound, "Sending e-mail." is never published and SendMail is
   never invoked. *)
C1_SendOnlyWhenReady ==
    /\ Calls("SendMail") <= 1
    /\ sentMail.set <=> Calls("SendMail") = 1
    /\ Calls("SendMail") = 1 =>
          /\ futureConnectSuccess = "true"
          /\ readyOrBroken = "true"
          /\ InTime(resolvedAt.ready)
    /\ futureConnectSuccess = "false" /\ pc = "done" =>
          /\ Calls("SendMail") = 0
          /\ ~Published(Info(MsgSending))
    /\ ReadyWaitOver /\ ~ReadyInTime =>
          /\ Calls("SendMail") = 0
          /\ ~Published(Info(MsgSending))
          /\ sendCompleted = "none"

\* SendMail has been invoked, readyOrBroken having resolved during the wait
C1_Witness ==
    /\ Calls("SendMail") = 1
    /\ resolvedAt.ready.phase = "during"
    /\ resolvedAt.ready.at > 0

(* C2: when connect, ready and send all succeed, the six progress
   diagnostics are published once each, in the order Connecting, Connected,
   Preparing, Sending, Waiting, Sent, at level 3, no warning is published,
   and main returns EXIT_SUCCESS. *)
C2_SuccessPathDiagnostics ==
    (/\ pc = "done"
     /\ futureConnectSuccess = "true"
     /\ readyOrBroken = "true" /\ InTime(resolvedAt.ready)
     /\ sendCompleted = "true" /\ InTime(resolvedAt.send))
    =>
    /\ SelectSeq(diag, LAMBDA d : d.msg \in ProgressMessages)
         = <<Info(MsgConnecting), Info(MsgConnected), Info(MsgPreparing),
             Info(MsgSending), Info(MsgWaiting), Info(MsgSent)>>
    /\ Warnings = <<>>
    /\ \A i \in 1..Len(diag) : diag[i].level = "3"
    /\ returned = <<EXIT_SUCCESS>>

C2_Witness ==
    /\ pc = "done"
    /\ futureConnectSuccess = "true"
    /\ readyOrBroken = "true" /\ InTime(resolvedAt.ready)
    /\ sendCompleted = "true" /\ InTime(resolvedAt.send)
    /\ Published(Info(MsgSent))

(* C3: main returns EXIT_SUCCESS exactly when sendCompleted resolved true
   within the bound of the wait on it; on every other path (usage error,
   connect failure, setup failure, setup timeout, send rejected, send
   timeout) it returns EXIT_FAILURE. *)
C3_ExitCode ==
    /\ pc = "done" <=> returned # <<>>
    /\ pc = "done" =>
          /\ returned \in {<<EXIT_SUCCESS>>, <<EXIT_FAILURE>>}
          /\ returned = <<EXIT_SUCCESS>> <=>
                (Calls("SendMail") = 1 /\ sendCompleted = "true"
                 /\ resolvedAt.send.phase = "during"
                 /\ resolvedAt.send.at <= WaitBound)
          /\ (\/ usagePrinted
              \/ futureConnectSuccess = "false"
              \/ (ReadyWaitOver /\ ~(ReadyInTime /\ readyOrBroken = "true"))
              \/ (SendWaitOver /\ ~(SendInTime /\ sendCompleted = "true")))
             => returned = <<EXIT_FAILURE>>

\* one run returned EXIT_SUCCESS, with the e-mail accepted at the deadline
C3_Witness ==
    /\ returned = <<EXIT_SUCCESS>>
    /\ resolvedAt.send.at = WaitBound

\* the failure of the orchestration the futures decide, "None" without one
Failure ==
    IF futureConnectSuccess = "false" /\ pc = "done" THEN MsgConnectProblem
    ELSE IF ReadyWaitOver /\ ReadyInTime /\ readyOrBroken = "false" THEN MsgSetupProblem
    ELSE IF ReadyWaitOver /\ ~ReadyInTime THEN MsgSetupTimeout
    ELSE IF SendWaitOver /\ SendInTime /\ sendCompleted = "false" THEN MsgSendProblem
    ELSE IF SendWaitOver /\ ~SendInTime THEN MsgSendTimeout
    ELSE "None"

(* C4: a failure of the orchestration (connect failure, setup failure, setup
   timeout, send rejected, send timeout) is terminal: exactly one warning
   is published, with the message of that failure, it is the last
   diagnostic, main returns EXIT_FAILURE, and from then on no diagnostic is
   published and no operation of the client is invoked. *)
C4_FailureIsTerminal ==
    /\ [](/\ Len(Warnings) <= 1
          /\ Failure # "None" <=> Len(Warnings) = 1
          /\ Len(Warnings) = 1 =>
                /\ Warnings[1] = Warning(Failure)
                /\ diag[Len(diag)] = Warnings[1]
                /\ pc = "done"
                /\ returned = <<EXIT_FAILURE>>)
    /\ [][Len(Warnings) = 1 =>
            /\ diag' = diag
            /\ ops' = ops
            /\ pc' = pc
            /\ returned' = returned
            /\ sentMail' = sentMail]_vars

\* a failed run whose future resolves after main has given up
C4_Witness ==
    /\ Len(Warnings) = 1
    /\ Warnings[1].msg = MsgSetupTimeout
    /\ resolvedAt.ready.phase = "after"
    /\ readyOrBroken = "true"

(* C5: after a successful connect the wait for readiness ends in one of
   three ways: "Sending e-mail." follows exactly when readyOrBroken resolved
   true within the bound, the warning "There was a problem setting up to
   send the e-mail!" exactly when it resolved false within the bound, the
   warning "Timeout waiting to set up to send the e-mail!" exactly when the
   bound elapsed without it being resolved. *)
C5_ReadyWaitOutcomes ==
    ReadyWaitOver =>
       /\ futureConnectSuccess = "true"
       /\ Published(Info(MsgSending)) <=> (ReadyInTime /\ readyOrBroken = "true")
       /\ Published(Warning(MsgSetupProblem)) <=> (ReadyInTime /\ readyOrBroken = "false")
       /\ Published(Warning(MsgSetupTimeout)) <=> ~ReadyInTime
       /\ Published(Warning(MsgSetupTimeout)) => elapsed >= WaitBound
       /\ Times(Info(MsgSending)) + Times(Warning(MsgSetupProblem))
             + Times(Warning(MsgSetupTimeout)) = 1

\* the transport reported a problem in the course of the wait
C5_Witness ==
    /\ ReadyWaitOver
    /\ readyOrBroken = "false"
    /\ resolvedAt.ready.phase = "during"
    /\ Published(Warning(MsgSetupProblem))

(* C6: once SendMail has been invoked the outcome is decided by
   sendCompleted within the 5000 ms bound alone: resolved true, "E-mail
   successfully sent." and EXIT_SUCCESS; resolved false, the warning "There
   was a problem sending the e-mail!"; not resolved within the bound, the
   warning "Timeout waiting for server to accept the e-mail!". A result that
   resolves after the bound has elapsed does not make the run a success. *)
C6_SendWaitOutcomes ==
    SendWaitOver =>
       /\ pc = "done"
       /\ (Published(Info(MsgSent)) /\ returned = <<EXIT_SUCCESS>>)
             <=> (SendInTime /\ sendCompleted = "true")
       /\ (Published(Warning(MsgSendProblem)) /\ returned = <<EXIT_FAILURE>>)
             <=> (SendInTime /\ sendCompleted = "false")
       /\ (Published(Warning(MsgSendTimeout)) /\ returned = <<EXIT_FAILURE>>)
             <=> ~SendInTime
       /\ resolvedAt.send.phase = "after" => returned = <<EXIT_FAILURE>>
       /\ Published(Warning(MsgSendTimeout)) => elapsed >= WaitBound
       /\ Times(Info(MsgSent)) + Times(Warning(MsgSendProblem))
             + Times(Warning(MsgSendTimeout)) = 1

\* the server accepts the e-mail after main has timed out
C6_Witness ==
    /\ SendWaitOver
    /\ sendCompleted = "true"
    /\ resolvedAt.send.phase = "after"
    /\ Published(Warning(MsgSendTimeout))

(* C7: whenever client.Connect has been invoked, the username and password
   of the reserved headers have been handed to auth->SetCredentials before,
   and SetCredentials comes before Connect among the calls. *)
C7_CredentialsBeforeConnect ==
    (pc = "connect" \/ Calls("Connect") > 0) =>
       LET h == ParseRawMessage(<<>>, Stream(fed)).headers
       IN /\ credentials.set
          /\ credentials.identity = GetHeaderValue(h, UserKey)
          /\ credentials.credentials = GetHeaderValue(h, PassKey)
          /\ Calls("SetCredentials") = 1
          /\ Calls("Connect") > 0 => Position("SetCredentials") < Position("Connect")

\* Connect invoked with a username taken from the e-mail
C7_Witness ==
    /\ Calls("Connect") = 1
    /\ credentials.identity = <<"u">>

-----------------------------------------------------------------------------
(* The splitter and the extraction *)

\* the headers of name key, by position
Occurrences(headers, key) ==
    {i \in 1..Len(headers) : SameName(headers[i].name, key)}

\* the value of the first header of name key, empty without one
FirstValue(headers, key) ==
    IF Occurrences(headers, key) = {} THEN <<>>
    ELSE headers[CHOOSE i \in Occurrences(headers, key) :
                    \A j \in Occurrences(headers, key) : i <= j].value

(* C8: Complete is terminal for the splitter: once ParseRawMessage has
   reported Complete it is not called again, nothing more is consumed and no
   header is added while the file is read; the body is what the stream holds
   after the bytes the parser consumed: the rest of the buffer of the
   completing call, then every later line with its CRLF. *)
C8_CompleteIsTerminal ==
    /\ [](headersComplete =>
            /\ lastParse = "Complete"
            /\ email.body = Substr(Stream(fed), consumedTotal))
    /\ [][headersComplete =>
            /\ headersComplete'
            /\ parseCalls' = parseCalls
            /\ consumedTotal' = consumedTotal
            /\ lastParse' = lastParse
            /\ pc' \in {"read", "extract"} => email'.headers = email.headers
            /\ fed' # fed => email'.body = email.body \o LineWithNewLine(Head(file))]_vars

\* lines were read after the headers were complete
C8_Witness ==
    /\ headersComplete
    /\ email.headers # <<>>
    /\ email.body # <<>>
    /\ parseCalls < Len(fed)

(* C9: when ReadEmail returns, the headers and the body it has built line
   by line are those of parsing the whole stream in one call, for every
   stream the parser does not reject. *)
C9_ChunkInvariance ==
    pc = "extract" =>
       LET whole == ParseRawMessage(<<>>, Stream(fed))
       IN whole.state # "Error" =>
             /\ email.headers = whole.headers
             /\ email.body = (IF whole.state = "Complete"
                              THEN Substr(Stream(fed), whole.consumed)
                              ELSE <<>>)

\* a folded header, kept in the buffer from line to line, and a body
C9_Witness ==
    /\ pc = "extract"
    /\ fed = <<SubjLine, FoldLine, BlankLine, TextLine>>
    /\ Len(email.headers) = 1
    /\ email.body = LineWithNewLine(TextLine)

(* C10: ConnectToServer leaves no header named X-SMTP-Server-Hostname,
   X-SMTP-Port, X-SMTP-Username or X-SMTP-Password (in any case, however
   often it occurred) in the e-mail, and host, port, username and password
   are taken from the first occurrence of each, empty when there is none. *)
C10_ReservedHeadersExtracted ==
    /\ [](pc = "connect" =>
            \A key \in ReservedKeys : Occurrences(email.headers, key) = {})
    /\ [][pc = "extract" /\ pc' = "connect" =>
            /\ connectArgs'.host = FirstValue(email.headers, HostKey)
            /\ connectArgs'.port = ScanU16(FirstValue(email.headers, PortKey))
            /\ credentials'.identity = FirstValue(email.headers, UserKey)
            /\ credentials'.credentials = FirstValue(email.headers, PassKey)]_vars

\* two occurrences of the username, in different case; the first one is used
C10_Witness ==
    /\ pc = "connect"
    /\ Cardinality(Occurrences(ParseRawMessage(<<>>, Stream(fed)).headers, UserKey)) = 2
    /\ fed[1] = UserLine2
    /\ credentials.identity = <<"v">>
    /\ email.headers = <<>>


\* the headers whose name is none of the four keys ConnectToServer reads
NotReserved(headers) ==
    SelectSeq(headers, LAMBDA h : \A key \in ReservedKeys : ~SameName(h.name, key))

(* C11: the extraction in ConnectToServer leaves the other headers as they
   were: the headers after it are the headers before it without those of
   the four keys, in the same order and number; the body is unchanged; and
   client.SendMail receives exactly these headers and this body. *)
C11_OtherHeadersUntouched ==
    /\ [][pc = "extract" /\ pc' = "connect" =>
            /\ email'.headers = NotReserved(email.headers)
            /\ email'.body = email.body]_vars
    /\ [][pc \notin {"start", "setup", "read", "extract"} => email' = email]_vars
    /\ [](sentMail.set =>
            /\ sentMail.headers = email.headers
            /\ sentMail.body = email.body
            /\ sentMail.headers = NotReserved(ParseRawMessage(<<>>, Stream(fed)).headers)
            /\ headersComplete => sentMail.body = Substr(Stream(fed), consumedTotal))

\* parameters between other headers: To, Subject, To are sent, in this order
C11_Witness ==
    /\ sentMail.set
    /\ fed = MixedFile
    /\ sentMail.headers = <<[name |-> <<"To">>, value |-> <<"r">>],
                            [name |-> <<"Subject">>, value |-> <<"s">>],
                            [name |-> <<"To">>, value |-> <<"r">>]>>
    /\ sentMail.body = LineWithNewLine(TextLine)

(* C12: the extraction is idempotent on the e-mail: applied to the headers
   ConnectToServer has left, it finds none of the four keys, gives an empty
   host, username and password and the port 0, and leaves the headers as
   they are. *)
C12_ExtractionIdempotent ==
    pc = "connect" =>
       LET again == ExtractParameters(email.headers)
       IN /\ again.headers = email.headers
          /\ again.serverHostName = <<>>
          /\ again.serverPortNumberAsString = <<>>
          /\ ScanU16(again.serverPortNumberAsString) = 0
          /\ again.username = <<>>
          /\ again.password = <<>>

\* the first extraction found a host and a username and left a header
C12_Witness ==
    /\ pc = "connect"
    /\ connectArgs.host = <<"h">>
    /\ credentials.identity = <<"u">>
    /\ email.headers # <<>>


\* the number a string of decimal digits writes
RECURSIVE NumeralValue(_)
NumeralValue(str) ==
    IF str = <<>> THEN 0
    ELSE NumeralValue(SubSeq(str, 1, Len(str) - 1)) * 10 + DigitValue(str[Len(str)])

\* a decimal numeral of a number in 0..65535
IsPortNumeral(str) ==
    /\ str # <<>>
    /\ \A i \in 1..Len(str) : str[i] \in Digits
    /\ NumeralValue(str) <= 65535

(* C13: the port passed to client.Connect is the value of X-SMTP-Port parsed
   as an unsigned 16-bit decimal integer: a decimal numeral of a number in
   0..65535 gives that number, anything else (no header, a value that is no
   number, a number that does not fit 16 bits, digits followed by other
   characters) gives 0; the port is always in 0..65535. *)
C13_PortParsedStrictly ==
    [][pc = "extract" /\ pc' = "connect" =>
         LET value == FirstValue(email.headers, PortKey)
         IN /\ connectArgs'.port \in 0..65535
            /\ connectArgs'.port =
                  (IF IsPortNumeral(value) THEN NumeralValue(value) ELSE 0)]_vars


\* the header names of the usage text (PrintUsageInformation, README.md)
UsageHostKey == <<"X-SMTP-Hostname">>
UsagePassKey == <<"X_SMTP-Password">>
UsageKeys == {UsageHostKey, PortKey, UserKey, UsagePassKey}

\* the headers of the e-mail file as read so far
GivenHeaders == ParseRawMessage(<<>>, Stream(fed)).headers

(* C14: every header the usage text names (X-SMTP-Hostname, X-SMTP-Port,
   X-SMTP-Username, X_SMTP-Password) that is present in the e-mail configures
   the client (host and port of client.Connect, identity and credentials of
   the login) and is not among the headers passed to client.SendMail. *)
C14_UsageHeadersStripped ==
    /\ connectArgs.set =>
          /\ Occurrences(GivenHeaders, UsageHostKey) # {} =>
                connectArgs.host = FirstValue(GivenHeaders, UsageHostKey)
          /\ Occurrences(GivenHeaders, PortKey) # {} =>
                connectArgs.port \in ScanU16Outcomes(FirstValue(GivenHeaders, PortKey))
          /\ Occurrences(GivenHeaders, UserKey) # {} =>
                credentials.identity = FirstValue(GivenHeaders, UserKey)
          /\ Occurrences(GivenHeaders, UsagePassKey) # {} =>
                credentials.credentials = FirstValue(GivenHeaders, UsagePassKey)
    /\ sentMail.set =>
          \A key \in UsageKeys : Occurrences(sentMail.headers, key) = {}


\* What a finished run called, published and returned, as the arguments and
\* the three futures determine it; the flag shutDown is no part of it.
ExpectedRun ==
    LET a == ProcessCommandLineArguments(args, [emailFileName |-> "", caCertsFileName |-> ""])
        connected == <<"Configure", "RegisterExtension", "GetReadyOrBrokenFuture",
                       "SetCredentials", "Connect">>
        connecting == a.diag \o <<Info(MsgConnecting)>>
        preparing == connecting \o <<Info(MsgConnected), Info(MsgPreparing)>>
        waiting == preparing \o <<Info(MsgSending), Info(MsgWaiting)>>
        ready == IF resolvedAt.ready.phase \in {"before", "during"}
                 THEN readyOrBroken ELSE "timeout"
        sent == IF resolvedAt.send.phase = "during" THEN sendCompleted ELSE "timeout"
        failed(o, d, msg) == [ops |-> o, diag |-> Append(d, Warning(msg)),
                              returned |-> <<EXIT_FAILURE>>]
    IN CASE ~a.ok -> [ops |-> <<>>, diag |-> a.diag, returned |-> <<EXIT_FAILURE>>]
         [] a.ok /\ futureConnectSuccess # "true" ->
               failed(connected, connecting, MsgConnectProblem)
         [] a.ok /\ futureConnectSuccess = "true" /\ ready = "false" ->
               failed(connected, preparing, MsgSetupProblem)
         [] a.ok /\ futureConnectSuccess = "true" /\ ready = "timeout" ->
               failed(connected, preparing, MsgSetupTimeout)
         [] a.ok /\ futureConnectSuccess = "true" /\ ready = "true" /\ sent = "false" ->
               failed(Append(connected, "SendMail"), waiting, MsgSendProblem)
         [] a.ok /\ futureConnectSuccess = "true" /\ ready = "true" /\ sent = "timeout" ->
               failed(Append(connected, "SendMail"), waiting, MsgSendTimeout)
         [] OTHER ->
               [ops |-> Append(connected, "SendMail"),
                diag |-> waiting \o <<Info(MsgSent), Info(MsgExiting)>>,
                returned |-> <<EXIT_SUCCESS>>]

(* C15: the flag shutDown is written by the interrupt handler only and read
   by nobody: a step that changes the flag sets it and changes nothing else,
   whenever in the run it happens, and the transport operations, the
   diagnostics and the exit code of a finished run are those the arguments
   and the futures determine, with or without an interrupt. *)
C15_ShutDownWriteOnly ==
    /\ [][shutDown' # shutDown =>
            /\ shutDown'
            /\ UNCHANGED <<pc, args, environment, file, fed, email, buffer,
                           headersComplete, parseCalls, consumedTotal, lastParse,
                           ops, credentials, connectArgs, sentMail,
                           futureConnectSuccess, readyOrBroken, sendCompleted,
                           elapsed, resolvedAt, diag, usagePrinted, returned>>]_vars
    /\ [](pc = "done" =>
            /\ ops = ExpectedRun.ops
            /\ diag = ExpectedRun.diag
            /\ returned = ExpectedRun.returned)

\* an interrupt in the wait for sendCompleted, and the e-mail is sent
C15_Witness ==
    /\ pc = "done"
    /\ shutDown
    /\ returned = <<EXIT_SUCCESS>>
    /\ ops[Len(ops)] = "SendMail"


(* C16: with no argument or more than two, the process ends with
   EXIT_FAILURE after the usage text, and the e-mail file is not read, the
   client is not set up and nothing is connected or sent; with one or two
   arguments the arguments are accepted, the first is the path of the e-mail
   and the second, if given, the path of the certificates. *)
C16_UsageErrorBeforeAnything ==
    /\ Len(args) \notin {1, 2} /\ pc # "start" =>
          /\ pc = "done"
          /\ usagePrinted
          /\ returned = <<EXIT_FAILURE>>
          /\ fed = <<>> /\ parseCalls = 0 /\ email = [headers |-> <<>>, body |-> <<>>]
          /\ ops = <<>>
          /\ ~credentials.set /\ ~connectArgs.set /\ ~sentMail.set
          /\ futureConnectSuccess = "none" /\ readyOrBroken = "none"
          /\ sendCompleted = "none"
    /\ usagePrinted => Len(args) \notin {1, 2}
    /\ Len(args) \in {1, 2} /\ pc # "start" =>
          /\ ~usagePrinted
          /\ environment.emailFileName = args[1]
          /\ environment.caCertsFileName = (IF Len(args) = 2 THEN args[2] ELSE "")
          /\ \A i \in 1..Len(diag) : diag[i].level # "ERROR"

\* the usage error of too many arguments, on a file that has lines
C16_Witness ==
    /\ Len(args) = 3
    /\ pc = "done"
    /\ usagePrinted
    /\ file # <<>>


(* C17: a run that has called client.Connect ends (main returns), given
   that the connect future is resolved at some time: the wait for it has no
   deadline and lasts until then; the waits for readyOrBroken and for
   sendCompleted end when 5000 ms have passed at the latest, whether or not
   the future is ever resolved. *)
C17_RunTerminates ==
    /\ pc \in {"awaitConnect", "awaitReady", "awaitSend"} ~> pc = "done"
    /\ [](pc = "done" => returned \in {<<EXIT_SUCCESS>>, <<EXIT_FAILURE>>})
    /\ [](pc \in {"awaitReady", "awaitSend"} => elapsed <= WaitBound)
    /\ [](pc = "awaitReady" /\ elapsed >= WaitBound => ENABLED AwaitReady)
    /\ [](pc = "awaitSend" /\ elapsed >= WaitBound => ENABLED AwaitSend)
    /\ [](pc = "awaitConnect" /\ ~Resolved(futureConnectSuccess) => ~ENABLED AwaitConnect)

\* the run ended although sendCompleted was never resolved
C17_Witness ==
    /\ pc = "done"
    /\ sendCompleted = "pending"
    /\ Published(Warning(MsgSendTimeout))
    /\ returned = <<EXIT_FAILURE>>


(* C18, as claimed: the readyOrBroken future is requested in the Connected
   state only, that is after client.Connect was called and its future
   resolved true, and never before the connect is initiated. *)
C18_ReadyRequestedWhenConnected ==
    Calls("GetReadyOrBrokenFuture") > 0 =>
       /\ Calls("Connect") > 0
       /\ Position("Connect") < Position("GetReadyOrBrokenFuture")
       /\ futureConnectSuccess = "true"

(* C18, amended: the readyOrBroken future is requested once, when ReadEmail
   has returned and before the connection parameters are extracted and
   client.Connect is called, whatever the connect comes to; the wait of up
   to 5000 ms on it starts later, and only after the connect future resolved
   true. *)
C18_ReadyRequestedBeforeConnect ==
    /\ Calls("GetReadyOrBrokenFuture") <= 1
    /\ Calls("GetReadyOrBrokenFuture") = 1 <=>
          pc \notin {"start", "setup", "read"} /\ ~usagePrinted
    /\ readyOrBroken # "none" <=> Calls("GetReadyOrBrokenFuture") = 1
    /\ Calls("SetCredentials") > 0 =>
          Position("GetReadyOrBrokenFuture") < Position("SetCredentials")
    /\ Calls("Connect") > 0 =>
          Position("GetReadyOrBrokenFuture") < Position("Connect")
    /\ pc = "awaitReady" \/ Published(Info(MsgPreparing)) =>
          /\ futureConnectSuccess = "true"
          /\ Position("GetReadyOrBrokenFuture") < Position("Connect")
    /\ pc = "done" /\ futureConnectSuccess = "false" =>
          /\ Calls("GetReadyOrBrokenFuture") = 1
          /\ ~Published(Info(MsgPreparing))
          /\ elapsed = 0

\* the wait starts on a future that was requested before the connect and is
\* resolved already
C18_Witness ==
    /\ pc = "awaitReady"
    /\ elapsed = 0
    /\ resolvedAt.ready.phase = "before"
    /\ Position("GetReadyOrBrokenFuture") < Position("Connect")


(* C19: as long as the parser has not reported Complete, no byte is lost and
   none is kept twice: after every line fed, the bytes the parser has
   consumed so far followed by the buffer are the lines fed so far, each with
   its CR LF, and the buffer is what the parser did not consume of the
   previous buffer followed by the new line (empty if it consumed all). *)
C19_NoLossNoDuplication ==
    /\ [](~headersComplete =>
            /\ consumedTotal <= Len(Stream(fed))
            /\ SubSeq(Stream(fed), 1, consumedTotal) \o buffer = Stream(fed)
            /\ parseCalls = Len(fed))
    /\ [][~headersComplete /\ fed' # fed =>
            LET lineWithNewLine == LineWithNewLine(fed'[Len(fed')])
                bytesConsumed == consumedTotal' - consumedTotal
            IN /\ fed' = Append(fed, fed'[Len(fed')])
               /\ bytesConsumed \in 0..Len(buffer \o lineWithNewLine)
               /\ buffer' = Substr(buffer \o lineWithNewLine, bytesConsumed)
               /\ bytesConsumed = Len(buffer \o lineWithNewLine) => buffer' = <<>>]_vars

\* a header consumed, the line after it kept for the next call
C19_Witness ==
    /\ pc = "read"
    /\ ~headersComplete
    /\ Len(fed) = 3
    /\ consumedTotal > 0
    /\ buffer = LineWithNewLine(fed[3])
    /\ buffer # <<>>


\* str holds CR CR
DoubleCR(str) == \E i \in 1..(Len(str) - 1) : str[i] = CR /\ str[i + 1] = CR

(* C20: every line fed to the parser or appended to the body is the content
   of the source line followed by exactly one CR LF, whether the source line
   ends with LF, with CR LF or with the end of the file; CR CR LF is never
   fed and never part of the body. *)
C20_ExactlyOneCRLF ==
    /\ \A i \in 1..Len(fed) : fed[i] \in RawContents
    /\ ~DoubleCR(Stream(fed))
    /\ ~DoubleCR(buffer)
    /\ ~DoubleCR(email.body)


\* the bytes of the file the parser has consumed
ConsumedPrefix == SubSeq(Stream(fed), 1, consumedTotal)

(* C21: the body is empty as long as the parser has not reported Complete.
   When the file ends with the parser at Incomplete or Error, ReadEmail
   returns the headers parsed from the bytes consumed and an empty body; what
   is left in the buffer is dropped, it adds no header and no body; and main
   goes on to take the parameters from these headers and to call
   client.Connect. *)
C21_BodyEmptyUntilComplete ==
    /\ [](~headersComplete =>
            /\ email.body = <<>>
            /\ sentMail.set => sentMail.body = <<>>)
    /\ [](~headersComplete /\ pc \in {"read", "extract"} =>
            email.headers = ParseRawMessage(<<>>, ConsumedPrefix \o CRLF).headers)
    /\ [][pc = "read" /\ pc' # "read" => pc' = "extract" /\ email' = email]_vars
    /\ [][pc # "read" => UNCHANGED <<buffer, headersComplete, consumedTotal>>
                         /\ email'.body = email.body]_vars
    /\ [](pc = "read" /\ file = <<>> => ENABLED ReadEmailReturn)
    /\ [](pc = "extract" => ENABLED ConnectToServerExtract)
    /\ [](pc = "connect" => ENABLED ConnectToServerConnect)

\* a file that is one header line without the empty line: the line is still
\* in the buffer when client.Connect is called without a host name
C21_Witness ==
    /\ pc = "awaitConnect"
    /\ fed = <<HostLine>>
    /\ ~headersComplete
    /\ lastParse = "Incomplete"
    /\ buffer = LineWithNewLine(HostLine)
    /\ email = [headers |-> <<>>, body |-> <<>>]
    /\ connectArgs.set
    /\ connectArgs.host = <<>>

====
